---------------------------- MODULE Spec2Model ----------------------------
(***************************************************************************)
(* Model of the question-bank assembly and variant synthesis pipeline:     *)
(* QuestionGenerator (test_generator.py) and the batch controller          *)
(* generate_test_variants / main (test_generator_batch.py).                *)
(*                                                                         *)
(* Python values are modelled as follows.                                  *)
(*  - A JSON value read from a pool file is a tagged record: JNumber,      *)
(*    JNull, JString, JArray, JObject.  The tag is what isinstance() and   *)
(*    the `in` operator look at.                                           *)
(*  - A call's outcome is Return(v) or Raise(e), e the exception class.    *)
(*  - A text that is only concatenated is a sequence of tokens; a text     *)
(*    that is escaped is a sequence of characters.                         *)
(***************************************************************************)
EXTENDS Integers, Sequences, FiniteSets, TLC

VARIABLES
    fs,      \* the pool files: path -> file
    readonly,\* the output paths that cannot be written
    config,  \* the test configuration (the dict load_config returns)
    args,    \* the command line overrides
    self,    \* the QuestionGenerator object
    pc,      \* the position of the running program
    batch,   \* locals of generate_test_variants
    call,    \* locals of generate_test_for_language / generate_test_from_multiple_files
    exc,     \* the exception in flight, "None" when there is none
    disk,    \* the output directory: path -> what was written
    log,     \* history: every artifact written and every call's outcome
    arg,     \* input of the function under test (function-level specifications)
    res      \* its result

vars == <<fs, readonly, config, args, self, pc, batch, call, exc, disk, log, arg, res>>

----------------------------------------------------------------------------
(* Bounds *)

MaxRecords == 2     \* records in a pool file
MaxQuestions == 2   \* questions of one quiz
MaxVariants == 2    \* variants of a batch
MaxCalls == 3       \* calls made on one generator
MaxDefects == 1     \* pool files that are missing, malformed or short
MaxReadOnly == 1    \* output paths that cannot be written
MaxItems == 6       \* questions of a quiz whose score is computed
MaxPoints == 3      \* points per question
MaxTextLen == 3     \* characters of an escaped text

----------------------------------------------------------------------------
(* Generic helpers *)

Range(s) == {s[i] : i \in DOMAIN s}

Min(a, b) == IF a < b THEN a ELSE b

Max(a, b) == IF a > b THEN a ELSE b

SeqsUpTo(S, n) == UNION {[1..k -> S] : k \in 0..n}

RECURSIVE Flatten(_)
Flatten(ss) == IF ss = <<>> THEN <<>> ELSE Head(ss) \o Flatten(Tail(ss))

RECURSIVE SumSeq(_)
SumSeq(s) == IF s = <<>> THEN 0 ELSE Head(s) + SumSeq(Tail(s))

(* A call's outcome. *)
Return(v) == [exc |-> "None", ret |-> v]

\* cls is the exception class, msg says which raise statement it was
Raise(cls, msg) == [exc |-> cls, msg |-> msg]

NoExc == [exc |-> "None"]

\* optional values: None or Some(v)
None == <<>>

Some(v) == <<v>>

----------------------------------------------------------------------------
(* JSON values, as json.load returns them *)

JNumber == [t |-> "number"]

JNull == [t |-> "null"]

\* a str; words are the substrings the `in` operator can find in it
JString(words) == [t |-> "string", s |-> words]

JArray(xs) == [t |-> "array", a |-> xs]

JObject(f) == [t |-> "object", o |-> f]

(* Python's `x in container`.  A number or None is not a container: the     *)
(* operator raises TypeError.                                               *)
py_in(x, container) ==
    CASE container.t = "object" -> Return(x \in DOMAIN container.o)
      [] container.t = "array"  -> Return(x \in Range(container.a))
      [] container.t = "string" -> Return(x \in Range(container.s))
      [] OTHER                  -> Raise("TypeError", "not_iterable")

(* Python's s[:n], n of either sign. *)
py_slice_to(s, n) ==
    IF n >= 0 THEN SubSeq(s, 1, Min(n, Len(s)))
              ELSE SubSeq(s, 1, Max(Len(s) + n, 0))

----------------------------------------------------------------------------
(* QuestionGenerator._validate_question *)

required_fields == <<"question", "answers", "correct">>

RECURSIVE fields_present(_, _)
fields_present(question, fields) ==
    IF fields = <<>> THEN Return(TRUE)
    ELSE LET r == py_in(Head(fields), question) IN
         IF r.exc # "None" THEN r
         ELSE IF ~r.ret THEN Return(FALSE)
         ELSE fields_present(question, Tail(fields))

_validate_question(question) ==
    LET present == fields_present(question, required_fields) IN
    IF present.exc # "None" THEN present
    ELSE IF ~present.ret THEN Return(FALSE)
    \* question["answers"]: a str or a list is indexed by integers only
    ELSE IF question.t # "object" THEN Raise("TypeError", "bad_index")
    ELSE IF question.o.answers.t # "array" \/ Len(question.o.answers.a) # 4
         THEN Return(FALSE)
    ELSE IF question.o.correct \notin Range(question.o.answers.a)
         THEN Return(FALSE)
    ELSE Return(TRUE)

----------------------------------------------------------------------------
(* QuestionGenerator.load_questions *)

RECURSIVE validate_loop(_, _)
validate_loop(questions, validated_questions) ==
    IF questions = <<>> THEN Return(validated_questions)
    ELSE LET v == _validate_question(Head(questions)) IN
         IF v.exc # "None" THEN v
         ELSE IF ~v.ret THEN validate_loop(Tail(questions), validated_questions)
         ELSE validate_loop(Tail(questions),
                            Append(validated_questions, Head(questions)))

\* load_questions with a missing file read as an empty pool
load_questions_missing_is_empty(files, json_path) ==
    IF json_path \notin DOMAIN files THEN Return(<<>>)
    ELSE LET f == files[json_path] IN
         IF ~f.wellformed THEN Raise("ValueError", "invalid_json")
         ELSE IF f.json.t # "array" THEN Raise("ValueError", "not_a_list")
         ELSE validate_loop(f.json.a, <<>>)

(* A file is [wellformed |-> FALSE] (json.load raises JSONDecodeError) or   *)
(* [wellformed |-> TRUE, json |-> value].                                   *)
load_questions(files, json_path) ==
    IF json_path \notin DOMAIN files THEN Raise("FileNotFoundError", "not_found")
    ELSE LET f == files[json_path] IN
         IF ~f.wellformed THEN Raise("ValueError", "invalid_json")
         ELSE IF f.json.t # "array" THEN Raise("ValueError", "not_a_list")
         ELSE validate_loop(f.json.a, <<>>)

----------------------------------------------------------------------------
(* QuestionGenerator.load_questions_from_multiple_files                     *)
(* The result carries, beside all_questions, the selected_questions of each *)
(* file in the order the loop made them.                                    *)

\* load_loop with all_questions.extend turned into a prepend
RECURSIVE load_loop_prepend(_, _, _, _)
load_loop_prepend(files, file_configs, all_questions, selected) ==
    IF file_configs = <<>>
    THEN [exc |-> "None", ret |-> all_questions, selected |-> selected]
    ELSE LET cfg == Head(file_configs)
             file_questions == load_questions(files, cfg.path)
         IN  IF file_questions.exc # "None" THEN file_questions
             ELSE IF Len(file_questions.ret) < cfg.count
                  THEN Raise("ValueError", "insufficient")
             ELSE LET selected_questions == py_slice_to(file_questions.ret, cfg.count)
                  IN  load_loop_prepend(files, Tail(file_configs),
                                        selected_questions \o all_questions,
                                        Append(selected, selected_questions))

RECURSIVE load_loop(_, _, _, _)
load_loop(files, file_configs, all_questions, selected) ==
    IF file_configs = <<>>
    THEN [exc |-> "None", ret |-> all_questions, selected |-> selected]
    ELSE LET cfg == Head(file_configs)
             file_questions == load_questions(files, cfg.path)
         IN  IF file_questions.exc # "None" THEN file_questions
             ELSE IF Len(file_questions.ret) < cfg.count
                  THEN Raise("ValueError", "insufficient")
             ELSE LET selected_questions == py_slice_to(file_questions.ret, cfg.count)
                  IN  load_loop(files, Tail(file_configs),
                                all_questions \o selected_questions,
                                Append(selected, selected_questions))

load_questions_from_multiple_files(files, file_configs) ==
    load_loop(files, file_configs, <<>>, <<>>)

----------------------------------------------------------------------------
(* The records a pool file may hold *)

Question(text, answers, correct) ==
    JObject([question |-> text, answers |-> JArray(answers), correct |-> correct])

Qa == Question("Q1", <<"A", "B", "C", "D">>, "B")

Qb == Question("Q2", <<"W", "X", "Y", "Z">>, "Z")

\* duplicate answers, and answers that read like the sentinels
Qc == Question("Q3", <<"I don't know", "X", "X", "Ne znam">>, "X")

MissingCorrect == JObject([question |-> "Q4", answers |-> JArray(<<"A", "B", "C", "D">>)])

ThreeAnswers == Question("Q5", <<"A", "B", "C">>, "A")

AnswersNotList ==
    JObject([question |-> "Q6", answers |-> JString(<<"ABCD">>), correct |-> "A"])

CorrectNotMember == Question("Q7", <<"A", "B", "C", "D">>, "E")

PlainString == JString(<<"foo">>)

\* a str and a list that contain every required field name
FieldNamesString == JString(<<"question", "answers", "correct">>)

FieldNamesList == JArray(<<"question", "answers", "correct">>)

ValidRecords == {Qa, Qb, Qc}

MappingRecords ==
    ValidRecords \cup {MissingCorrect, ThreeAnswers, AnswersNotList, CorrectNotMember}

Records ==
    MappingRecords \cup {JNumber, JNull, PlainString, FieldNamesString, FieldNamesList}

(* What the specification calls a valid question record (section 3):        *)
(* a mapping with the three fields, four answers, correct among them.       *)
IsValidQuestion(r) ==
    /\ r.t = "object"
    /\ DOMAIN r.o = {"question", "answers", "correct"}
    /\ r.o.answers.t = "array"
    /\ Len(r.o.answers.a) = 4
    /\ r.o.correct \in Range(r.o.answers.a)

RECURSIVE ValidOf(_)
ValidOf(records) ==
    IF records = <<>> THEN <<>>
    ELSE (IF IsValidQuestion(Head(records)) THEN <<Head(records)>> ELSE <<>>)
         \o ValidOf(Tail(records))

WellFormed(json) == [wellformed |-> TRUE, json |-> json]

Malformed == [wellformed |-> FALSE]

\* every pool file of at most MaxRecords records, and the files that do not parse
PoolFiles ==
    {WellFormed(JArray(rs)) : rs \in SeqsUpTo(Records, MaxRecords)}
        \cup {WellFormed(JObject([question |-> "Q1"])), Malformed}

----------------------------------------------------------------------------
(* Values of the variables a specification does not use *)

Unused == <<>>

NoCall ==
    [file_configs |-> <<>>, output_path |-> <<>>, original_title |-> <<>>,
     all_questions |-> <<>>, selected |-> <<>>, js_questions |-> <<>>,
     script_content |-> <<>>]

----------------------------------------------------------------------------
(* SpecLoad: load_questions and load_questions_from_multiple_files applied  *)
(* to one pool file.                                                        *)

PoolPath == <<"QAPool", "/", "en", "/", "m1.json">>

InitLoad ==
    /\ fs \in {<<>>} \cup {[p \in {PoolPath} |-> f] : f \in PoolFiles}
    /\ arg \in [path : {PoolPath}, count : -1..(MaxRecords + 1)]
    /\ res = Unused
    /\ pc = "call"
    /\ config = Unused /\ args = Unused /\ self = Unused /\ batch = Unused
    /\ call = NoCall /\ exc = NoExc /\ disk = <<>> /\ log = Unused
    /\ readonly = {}

LoadQuestions ==
    /\ pc = "call"
    /\ res' = load_questions(fs, arg.path)
    /\ pc' = "load_questions"
    /\ UNCHANGED <<fs, readonly, config, args, self, batch, call, exc, disk, log, arg>>

LoadSelected ==
    /\ pc = "call"
    /\ res' = load_questions_from_multiple_files(fs, <<arg>>)
    /\ pc' = "load_questions_from_multiple_files"
    /\ UNCHANGED <<fs, readonly, config, args, self, batch, call, exc, disk, log, arg>>

\* one call of _validate_question, on any record a pool file may hold
ValidateQuestion ==
    /\ pc = "call"
    /\ \E question \in Records :
          res' = [question |-> question, result |-> _validate_question(question)]
    /\ pc' = "_validate_question"
    /\ UNCHANGED <<fs, readonly, config, args, self, batch, call, exc, disk, log, arg>>

NextLoad == LoadQuestions \/ LoadSelected \/ ValidateQuestion

SpecLoad == InitLoad /\ [][NextLoad]_vars

\* the records of the pool file under test
RecordsOfFile == fs[PoolPath].json.a

IsRecordList == PoolPath \in DOMAIN fs /\ fs[PoolPath].wellformed /\ fs[PoolPath].json.t = "array"

(* C6: for a pool file that parses to a list of records, load_questions     *)
(* does not fail and returns exactly the valid records, in file order.      *)
C6_LoadDropsInvalid ==
    (pc = "load_questions" /\ IsRecordList)
        => (res.exc = "None" /\ res.ret = ValidOf(RecordsOfFile))

(* C12: load_questions raises the not-found error when the path does not    *)
(* exist and the parse error when the content is not well-formed JSON or is *)
(* not a list; it returns no questions then.                                *)
C12_NotFoundAndParseError ==
    pc = "load_questions" =>
        /\ PoolPath \notin DOMAIN fs => res = Raise("FileNotFoundError", "not_found")
        /\ (PoolPath \in DOMAIN fs /\ ~fs[PoolPath].wellformed)
              => res = Raise("ValueError", "invalid_json")
        /\ (PoolPath \in DOMAIN fs /\ fs[PoolPath].wellformed
                /\ fs[PoolPath].json.t # "array")
              => res = Raise("ValueError", "not_a_list")

\* load_questions has run on a missing pool file
C12_Witness ==
    pc = "load_questions" /\ PoolPath \notin DOMAIN fs /\ res.exc = "FileNotFoundError"

\* the three rules of the validator, in their order
HasRequiredFields(r) ==
    r.t = "object" /\ {"question", "answers", "correct"} \subseteq DOMAIN r.o

HasFourAnswers(r) == r.o.answers.t = "array" /\ Len(r.o.answers.a) = 4

CorrectIsAnAnswer(r) == r.o.correct \in Range(r.o.answers.a)

(* C11: _validate_question never raises; it returns true exactly when the   *)
(* record has the three fields, then four answers, then a correct answer    *)
(* among them, and false otherwise.                                         *)
C11_ValidateReturnsVerdict ==
    pc = "_validate_question"
        => (/\ res.result.exc = "None"
            /\ res.result.ret = (/\ HasRequiredFields(res.question)
                                 /\ HasFourAnswers(res.question)
                                 /\ CorrectIsAnAnswer(res.question)))

\* C11 on the records that are mappings
C11_MappingRecordsVerdict ==
    (pc = "_validate_question" /\ res.question.t = "object")
        => (/\ res.result.exc = "None"
            /\ res.result.ret = (/\ HasRequiredFields(res.question)
                                 /\ HasFourAnswers(res.question)
                                 /\ CorrectIsAnAnswer(res.question)))

----------------------------------------------------------------------------
(* QuestionGenerator.__init__ and convert_format *)

lower(language) ==
    CASE language = "EN" -> "en"
      [] language = "RS" -> "rs"
      [] language = "Both" -> "both"
      [] OTHER -> language

default_description == "To AI or not to AI, that is the question"

default_confirmation_message == "Hvala / Thanks for taking the quiz!"

default_points_per_question == 1

\* a title is the sequence of the pieces it was concatenated from
QuestionGenerator(name, language, results_sheet) ==
    [name |-> name, language |-> lower(language), results_sheet |-> results_sheet,
     description |-> default_description,
     points_per_question |-> default_points_per_question,
     confirmation_message |-> default_confirmation_message,
     title |-> <<name>>]

\* the orders random.shuffle can leave a list of n elements in
ShuffleOrders(n) == {p \in [1..n -> 1..n] : \A i, j \in 1..n : p[i] = p[j] => i = j}

shuffle(choices, p) == [i \in 1..Len(choices) |-> choices[p[i]]]

\* list.index: the position (from 0) of the first element equal to x
py_index(s, x) ==
    (CHOOSE i \in 1..Len(s) : s[i] = x /\ \A j \in 1..(i - 1) : s[j] # x) - 1

sentinel_choice(language) == IF language = "en" THEN "I don't know" ELSE "Ne znam"

\* a plausible slip: the index is taken before the shuffle
convert_question_stale_index(language, question, p) ==
    [question |-> question.o.question,
     choices  |-> Append(shuffle(question.o.answers.a, p), sentinel_choice(language)),
     correct  |-> py_index(question.o.answers.a, question.o.correct)]

\* a plausible slip: the sentinel is appended before the shuffle and moves with it
convert_question_sentinel_shuffled(language, question, p) ==
    LET shuffled == shuffle(question.o.answers.a, p)
        k == p[1]
        choices == SubSeq(shuffled, 1, k - 1) \o <<sentinel_choice(language)>>
                       \o SubSeq(shuffled, k, 4)
    IN  [question |-> question.o.question,
         choices  |-> choices,
         correct  |-> py_index(choices, question.o.correct)]

\* one iteration of convert_format's loop; p is what random.shuffle drew
convert_question(language, question, p) ==
    LET shuffled == shuffle(question.o.answers.a, p)
        correct_index == py_index(shuffled, question.o.correct)
    IN  [question |-> question.o.question,
         choices  |-> Append(shuffled, sentinel_choice(language)),
         correct  |-> correct_index]

convert_format(language, questions, draws) ==
    [i \in 1..Len(questions) |-> convert_question(language, questions[i], draws[i])]

\* list.copy(): a new list object with the same items, no alias of the original
py_copy(list) == [items |-> list, alias |-> FALSE]

\* the loop body without .copy(): shuffle and append act on question["answers"]
question_after_uncopied(language, question, p) ==
    [question EXCEPT !.o.answers =
        JArray(Append(shuffle(question.o.answers.a, p), sentinel_choice(language)))]

(* The caller's question after one iteration of the loop: random.shuffle    *)
(* and append work in place on `choices`, and reach question["answers"]     *)
(* only if `choices` is that same list object.                              *)
question_after(language, question, p) ==
    LET choices == py_copy(question.o.answers.a) IN
    IF choices.alias
    THEN [question EXCEPT !.o.answers =
             JArray(Append(shuffle(choices.items, p), sentinel_choice(language)))]
    ELSE question

\* the caller's list of questions after convert_format has returned
questions_after(language, questions, draws) ==
    [i \in 1..Len(questions) |-> question_after(language, questions[i], draws[i])]

\* the draws random.shuffle can make for these questions
Draws(questions) ==
    {d \in [1..Len(questions) -> ShuffleOrders(4)] :
        \A i \in 1..Len(questions) : d[i] \in ShuffleOrders(Len(questions[i].o.answers.a))}

----------------------------------------------------------------------------
(* SpecConvert: convert_format applied to lists of valid questions.         *)

AnswerTexts == {"A", "B", "I don't know", "Ne znam"}

\* every valid question over AnswerTexts: duplicates and sentinel look-alikes included
AnyQuestions ==
    {Question("Q", a, a[c]) : a \in [1..4 -> AnswerTexts], c \in 1..4}

InitConvert ==
    /\ arg \in {<<q>> : q \in AnyQuestions} \cup SeqsUpTo(ValidRecords, MaxQuestions)
    /\ self \in {QuestionGenerator("T", l, "sheet") : l \in {"en", "rs"}}
    /\ res = Unused
    /\ pc = "call"
    /\ fs = <<>> /\ config = Unused /\ args = Unused /\ batch = Unused
    /\ call = NoCall /\ exc = NoExc /\ disk = <<>> /\ log = Unused
    /\ readonly = {}

\* call.all_questions keeps the list as it was passed
ConvertFormat ==
    /\ pc = "call"
    /\ \E draws \in Draws(arg) :
          /\ res' = convert_format(self.language, arg, draws)
          /\ arg' = questions_after(self.language, arg, draws)
    /\ call' = [NoCall EXCEPT !.all_questions = arg]
    /\ pc' = "convert_format"
    /\ UNCHANGED <<fs, readonly, config, args, self, batch, exc, disk, log>>

NextConvert == ConvertFormat

SpecConvert == InitConvert /\ [][NextConvert]_vars

\* the sentinel the specification names for each language (section 4.4)
LanguageSentinel(language) ==
    CASE language = "en" -> "I don't know"
      [] language = "rs" -> "Ne znam"

BagOf(s) == [x \in Range(s) |-> Cardinality({i \in DOMAIN s : s[i] = x})]

Converted == pc = "convert_format"

(* C1: after convert_format, for every question the choice at the returned *)
(* correct index is the question's original correct answer, and the last    *)
(* choice is the language's sentinel.                                       *)
C1_CorrectIndexAndSentinel ==
    Converted =>
        /\ Len(res) = Len(arg)
        /\ \A i \in 1..Len(arg) :
              /\ res[i].correct + 1 \in DOMAIN res[i].choices
              /\ res[i].choices[res[i].correct + 1] = arg[i].o.correct
              /\ res[i].choices[Len(res[i].choices)] = LanguageSentinel(self.language)

\* a shuffled list of two questions was converted, the correct answer moved
C1_Witness ==
    /\ Converted
    /\ Len(arg) = 2
    /\ \E i \in 1..2 : res[i].correct # py_index(arg[i].o.answers.a, arg[i].o.correct)

(* C10: convert_format yields exactly 5 choices, the first four a           *)
(* permutation of the original answers, the sentinel after them, and a      *)
(* correct index in 0..3, also with duplicate or sentinel-like answers.     *)
C10_FiveChoicesSentinelApart ==
    Converted =>
        \A i \in 1..Len(res) :
            /\ Len(res[i].choices) = 5
            /\ BagOf(SubSeq(res[i].choices, 1, 4)) = BagOf(arg[i].o.answers.a)
            /\ res[i].choices[5] = LanguageSentinel(self.language)
            /\ res[i].correct \in 0..3

\* the correct answer reads like the sentinel, and another answer is repeated
C10_Witness ==
    /\ Converted
    /\ Len(arg) = 1
    /\ arg[1].o.correct = LanguageSentinel(self.language)
    /\ \E j, k \in 1..4 : j # k /\ arg[1].o.answers.a[j] = arg[1].o.answers.a[k]
    /\ res[1].choices # Append(arg[1].o.answers.a, LanguageSentinel(self.language))

----------------------------------------------------------------------------
(* QuestionGenerator._escape_js_string and the places of the template that  *)
(* embed a free text.  A text is a sequence of characters.                  *)

RECURSIVE str_replace(_, _, _)
str_replace(text, old, new) ==
    IF text = <<>> THEN <<>>
    ELSE (IF Head(text) = old THEN new ELSE <<Head(text)>>)
         \o str_replace(Tail(text), old, new)

_escape_js_string(text) ==
    str_replace(
        str_replace(
            str_replace(
                str_replace(text, "\\", <<"\\", "\\">>),
                "\"", <<"\\", "\"">>),
            "\n", <<"\\", "n">>),
        "\r", <<"\\", "r">>)

\* json.dumps of one str
json_dumps_str(text) ==
    <<"\"">>
    \o str_replace(
           str_replace(
               str_replace(
                   str_replace(text, "\\", <<"\\", "\\">>),
                   "\"", <<"\\", "\"">>),
               "\n", <<"\\", "n">>),
           "\r", <<"\\", "r">>)
    \o <<"\"">>

\* question: "{question_text}"
embed_question(text) == <<"\"">> \o _escape_js_string(text) \o <<"\"">>

\* choices: {json.dumps(choices)}, one element of the list
embed_choice(text) == json_dumps_str(_escape_js_string(text))

\* FormApp.create('{...}'), form.setTitle('{...}'), form.setDescription('{...}'),
\* form.setConfirmationMessage('{...}')
embed_single_quoted(text) == <<"'">> \o _escape_js_string(text) \o <<"'">>

TemplateFields == {"question", "choice", "title", "description", "confirmation_message"}

embed(field, text) ==
    CASE field = "question" -> embed_question(text)
      [] field = "choice"   -> embed_choice(text)
      [] OTHER              -> embed_single_quoted(text)

----------------------------------------------------------------------------
(* SpecEscape: a free text embedded into the template.                      *)

Chars == {"a", "'", "\"", "\\", "\n", "\r"}

InitEscape ==
    /\ arg \in [field : TemplateFields, text : SeqsUpTo(Chars, MaxTextLen)]
    /\ res = Unused
    /\ pc = "call"
    /\ fs = <<>> /\ config = Unused /\ args = Unused /\ self = Unused
    /\ batch = Unused /\ call = NoCall /\ exc = NoExc /\ disk = <<>> /\ log = Unused
    /\ readonly = {}

Embed ==
    /\ pc = "call"
    /\ res' = embed(arg.field, arg.text)
    /\ pc' = "embedded"
    /\ UNCHANGED <<fs, readonly, config, args, self, batch, call, exc, disk, log, arg>>

NextEscape == Embed

SpecEscape == InitEscape /\ [][NextEscape]_vars

(* How the host's JavaScript reader reads a string literal: from the        *)
(* character after the opening delimiter d, a backslash takes the next      *)
(* character with it, the first bare d closes the literal, a bare line      *)
(* break is an error.  The result is the position of the closing            *)
(* delimiter, 0 when the literal is broken or never closed.                 *)
RECURSIVE LiteralEnd(_, _, _)
LiteralEnd(src, i, d) ==
    IF i > Len(src) THEN 0
    ELSE IF src[i] = "\\" THEN LiteralEnd(src, i + 2, d)
    ELSE IF src[i] = d THEN i
    ELSE IF src[i] \in {"\n", "\r"} THEN 0
    ELSE LiteralEnd(src, i + 1, d)

LiteralIntact(src) == LiteralEnd(src, 2, src[1]) = Len(src)

(* C7: every free text embedded into the script stays inside its string     *)
(* literal: the literal ends at the template's closing delimiter, with no   *)
(* bare delimiter and no bare line break before it.                         *)
C7_EmbeddedLiteralIntact ==
    pc = "embedded" => LiteralIntact(res)

\* the same, for the fields the template encloses in double quotes
C7_DoubleQuotedIntact ==
    (pc = "embedded" /\ arg.field \in {"question", "choice"}) => LiteralIntact(res)

----------------------------------------------------------------------------
(* The generation pipeline of QuestionGenerator:                            *)
(* generate_test_for_language -> generate_test_from_multiple_files          *)
(* (load -> convert -> generate_script -> save_script).                     *)

\* content_config is the dict's items in insertion order
\* get_file_configs_from_content without the check of the language code
get_file_configs_unvalidated(content_config, language) ==
    Return([i \in 1..Len(content_config) |->
               [path  |-> <<"QAPool", "/", lower(language)>>
                             \o content_config[i].relative_path,
                count |-> content_config[i].count]])

get_file_configs_from_content(content_config, language) ==
    LET lang == lower(language) IN
    IF lang \notin {"en", "rs"} THEN Raise("ValueError", "unsupported_language")
    ELSE Return([i \in 1..Len(content_config) |->
                    [path  |-> <<"QAPool", "/", lang>> \o content_config[i].relative_path,
                     count |-> content_config[i].count]])

\* generated_test_{lang_suffix}.gs, the path used when none is given
default_output_path(language) == <<"generated_test_", lower(language), ".gs">>

\* the script, as the values the template is filled with
generate_script(generator, questions) ==
    [title                |-> generator.title,
     description          |-> generator.description,
     confirmation_message |-> generator.confirmation_message,
     results_sheet        |-> generator.results_sheet,
     points_per_question  |-> generator.points_per_question,
     name                 |-> generator.name,
     questionsPool        |-> questions]

(* What a written file holds.  The file is kept up to the order of each     *)
(* question's first four choices: the choices as a bag, the text at the     *)
(* correct index, and the last choice.                                      *)
FileOf(script_content) ==
    [title                |-> script_content.title,
     description          |-> script_content.description,
     confirmation_message |-> script_content.confirmation_message,
     results_sheet        |-> script_content.results_sheet,
     points_per_question  |-> script_content.points_per_question,
     name                 |-> script_content.name,
     questions            |->
        [i \in 1..Len(script_content.questionsPool) |->
            LET q == script_content.questionsPool[i] IN
            [question |-> q.question,
             answers  |-> BagOf(SubSeq(q.choices, 1, Len(q.choices) - 1)),
             correct  |-> q.choices[q.correct + 1],
             last     |-> q.choices[Len(q.choices)]]]]

\* one entry of the history: a call of generate_test_for_language
LogEntry(language, output_path) ==
    [language |-> language, output_path |-> output_path, stages |-> <<>>,
     outcome |-> "running", error |-> NoExc, written |-> <<>>]

LogStage(stage) ==
    [log EXCEPT ![Len(log)].stages = Append(@, stage)]

LogRaised(stage, e) ==
    [log EXCEPT ![Len(log)].stages = Append(@, stage),
                ![Len(log)].outcome = "raised",
                ![Len(log)].error = e]

(* generate_test_for_language up to the entry of the try block of           *)
(* generate_test_from_multiple_files: the language is set, the pool         *)
(* locations are resolved, the title gets its language tag.                 *)
EnterCall(content_config, language, output_path) ==
    LET file_configs == get_file_configs_from_content(content_config, language)
        path == IF output_path = None THEN default_output_path(language)
                ELSE output_path[1]
        entry == LogEntry(lower(language), path)
    IN  IF file_configs.exc # "None"
        THEN /\ self' = [self EXCEPT !.language = lower(language)]
             /\ exc' = file_configs
             /\ pc' = "raised"
             /\ call' = NoCall
             /\ log' = Append(log, [entry EXCEPT !.stages = <<"resolve">>,
                                                 !.outcome = "raised",
                                                 !.error = file_configs])
        ELSE /\ self' = [self EXCEPT !.language = lower(language),
                                     !.title = self.title \o <<lower(language)>>]
             /\ call' = [NoCall EXCEPT !.file_configs = file_configs.ret,
                                       !.output_path = path,
                                       !.original_title = self.title]
             /\ exc' = NoExc
             /\ pc' = "select"
             /\ log' = Append(log, [entry EXCEPT !.stages = <<"resolve">>])

\* all_questions = self.load_questions_from_multiple_files(file_configs)
Select ==
    /\ pc = "select"
    /\ LET r == load_questions_from_multiple_files(fs, call.file_configs) IN
       IF r.exc # "None"
       THEN /\ exc' = r
            /\ pc' = "raised"
            /\ call' = NoCall
            /\ log' = LogRaised("select", r)
       ELSE /\ call' = [call EXCEPT !.all_questions = r.ret, !.selected = r.selected]
            /\ pc' = "convert"
            /\ log' = LogStage("select")
            /\ exc' = exc
    /\ UNCHANGED <<fs, readonly, config, args, self, batch, disk, arg, res>>

\* js_questions = self.convert_format(all_questions)
Convert ==
    /\ pc = "convert"
    /\ \E draws \in Draws(call.all_questions) :
          call' = [call EXCEPT
                      !.js_questions =
                          convert_format(self.language, call.all_questions, draws),
                      !.all_questions =
                          questions_after(self.language, call.all_questions, draws)]
    /\ pc' = "synthesize"
    /\ log' = LogStage("convert")
    /\ UNCHANGED <<fs, readonly, config, args, self, batch, exc, disk, arg, res>>

\* script_content = self.generate_script(js_questions)
GenerateScript ==
    /\ pc = "synthesize"
    /\ call' = [call EXCEPT !.script_content = generate_script(self, call.js_questions)]
    /\ pc' = "write"
    /\ log' = LogStage("synthesize")
    /\ UNCHANGED <<fs, readonly, config, args, self, batch, exc, disk, arg, res>>

(* self.save_script(script_content, output_path), then the title is         *)
(* restored and the script returned.  A path that cannot be written makes   *)
(* open() raise OSError, which leaves the try block at once.                *)
SaveScript ==
    /\ pc = "write"
    /\ IF call.output_path \in readonly
       THEN /\ exc' = Raise("OSError", "write_failed")
            /\ pc' = "raised"
            /\ log' = LogRaised("write", Raise("OSError", "write_failed"))
            /\ UNCHANGED <<disk, self, res>>
       ELSE /\ disk' = [p \in DOMAIN disk \cup {call.output_path} |->
                          IF p = call.output_path THEN FileOf(call.script_content)
                          ELSE disk[p]]
            /\ self' = [self EXCEPT !.title = call.original_title]
            /\ res' = res
            /\ pc' = "returned"
            /\ log' = [log EXCEPT ![Len(log)].stages = Append(@, "write"),
                                  ![Len(log)].outcome = "returned",
                                  ![Len(log)].written = <<FileOf(call.script_content)>>]
            /\ exc' = exc
    /\ call' = NoCall
    /\ UNCHANGED <<fs, readonly, config, args, batch, arg>>

Pipeline == Select \/ Convert \/ GenerateScript \/ SaveScript

----------------------------------------------------------------------------
(* The environment of a run: the content configuration and the pool files   *)

Languages == {"en", "rs"}

RelPaths == {<<"/", "m1.json">>, <<"/", "m2.json">>}

\* a content config: one or two pools, each path once, in insertion order
ContentsOver(paths, counts) ==
    {c \in UNION {[1..n -> [relative_path : paths, count : counts]] : n \in 1..2} :
        \A i, j \in DOMAIN c : c[i].relative_path = c[j].relative_path => i = j}

Contents(counts) == ContentsOver(RelPaths, counts)

\* a relative path without its leading slash
StripSlash(relative_path) ==
    IF relative_path # <<>> /\ Head(relative_path) = "/" THEN Tail(relative_path)
    ELSE relative_path

\* where the pool of a content entry lies: <pool-root>/<language>/<relative-path>
PoolLocation(language, relative_path) ==
    <<"QAPool", "/", language, "/">> \o StripSlash(relative_path)

PoolPathsOf(content, languages) ==
    {PoolLocation(l, content[i].relative_path) : l \in languages, i \in DOMAIN content}

\* a pool file without defect: two valid questions
GoodFile(path) ==
    WellFormed(JArray(IF path[Len(path)] = "m1.json" THEN <<Qa, Qc>> ELSE <<Qb, Qa>>))

DefectKinds == {"missing", "malformed", "empty", "junk"}

DefectFile(kind) ==
    CASE kind = "malformed" -> Malformed
      [] kind = "empty"     -> WellFormed(JArray(<<MissingCorrect>>))
      [] kind = "junk"      -> WellFormed(JArray(<<Qa, JNumber>>))

\* the pool directories with at most MaxDefects defective files
FileSystems(paths) ==
    {[p \in {q \in paths : q \notin DOMAIN k \/ k[q] # "missing"} |->
         IF p \in DOMAIN k THEN DefectFile(k[p]) ELSE GoodFile(p)] :
     k \in UNION {[D -> DefectKinds] :
                     D \in {D \in SUBSET paths : Cardinality(D) <= MaxDefects}}}

\* the number of questions a content config selects from pools without defect
QuizLength(content) ==
    LET paths == PoolPathsOf(content, {"en"})
        r == load_questions_from_multiple_files(
                 [p \in paths |-> GoodFile(p)],
                 get_file_configs_from_content(content, "en").ret)
    IN  IF r.exc = "None" THEN Len(r.ret) ELSE 0

Configs(contents) ==
    {[name |-> "T", results_sheet |-> "sheet", content |-> c,
      language |-> Some("both"), variants |-> Some(1), output_dir |-> Some("out")] :
        c \in {c \in contents : QuizLength(c) <= MaxQuestions}}

----------------------------------------------------------------------------
(* SpecGen and SpecApi: a caller of generate_test_for_language.  The caller *)
(* makes args.calls calls, each in one of args.languages, on one generator  *)
(* or on a fresh one, and goes on whether a call returned or raised.        *)

ReadOnlyPath == <<"/readonly/", "out.gs">>

ApiCall ==
    /\ pc = "idle"
    /\ Len(log) < args.calls
    /\ \E language \in args.languages, output_path \in args.output_paths :
          EnterCall(config.content, language, output_path)
    /\ UNCHANGED <<fs, readonly, config, args, batch, disk, arg, res>>

\* the caller takes the result, or catches the exception
ApiResume ==
    /\ pc \in {"returned", "raised"}
    /\ pc' = "idle"
    /\ exc' = NoExc
    /\ UNCHANGED <<fs, readonly, config, args, self, batch, call, disk, log, arg, res>>

\* the caller goes on with a fresh generator
ApiNew ==
    /\ pc = "idle"
    /\ \E language \in args.languages :
          /\ self # QuestionGenerator(config.name, language, config.results_sheet)
          /\ self' = QuestionGenerator(config.name, language, config.results_sheet)
    /\ UNCHANGED <<fs, readonly, config, args, pc, batch, call, exc, disk, log, arg, res>>

NextApi == ApiCall \/ ApiResume \/ ApiNew \/ Pipeline

InitApiCommon ==
    /\ fs \in FileSystems(PoolPathsOf(config.content, args.languages))
    /\ self \in {QuestionGenerator(config.name, l, config.results_sheet) :
                    l \in args.languages}
    /\ pc = "idle"
    /\ batch = Unused /\ call = NoCall /\ exc = NoExc /\ disk = <<>> /\ log = <<>>
    /\ arg = Unused /\ res = Unused

\* one call, in one language, every content config
InitGen ==
    /\ config \in Configs(Contents(-1..MaxQuestions))
    /\ args \in [calls : {1}, languages : {{l} : l \in Languages}, output_paths : {{None}}]
    /\ readonly = {}
    /\ InitApiCommon

SpecGen == InitGen /\ [][NextApi]_vars

\* up to MaxCalls calls, in either language, to the default path or a read-only one
InitApi ==
    /\ config \in Configs({<<[relative_path |-> <<"/", "m1.json">>, count |-> 1]>>})
    /\ args = [calls |-> MaxCalls, languages |-> Languages,
               output_paths |-> {None, Some(ReadOnlyPath)}]
    /\ readonly = {ReadOnlyPath}
    /\ InitApiCommon

SpecApi == InitApi /\ [][NextApi]_vars

(* SpecResolve: calls with any language code, on content configs whose     *)
(* relative paths start with a slash or not.                                *)

LanguageCodes == {"en", "rs", "EN", "both", "de"}

RelPathsAny == {<<"/", "m1.json">>, <<"m1.json">>, <<"/", "l0", "/", "m2.json">>}

InitResolve ==
    /\ config \in Configs(ContentsOver(RelPathsAny, {1}))
    /\ args = [calls |-> 1, languages |-> LanguageCodes, output_paths |-> {None}]
    /\ readonly = {}
    /\ fs \in FileSystems(PoolPathsOf(config.content, Languages))
    /\ self = QuestionGenerator(config.name, "en", config.results_sheet)
    /\ pc = "idle"
    /\ batch = Unused /\ call = NoCall /\ exc = NoExc /\ disk = <<>> /\ log = <<>>
    /\ arg = Unused /\ res = Unused

SpecResolve == InitResolve /\ [][NextApi]_vars

\* the language code of the call in progress, as the caller passed it
Supported(language) == language \in {"en", "rs"}

(* C13: for a supported language the resolver returns one entry per content *)
(* entry, in insertion order, with the entry's count and the location       *)
(* <pool-root>/<language>/<relative-path>, the relative path starting with  *)
(* a slash or not.                                                          *)
C13_PoolLocations ==
    (pc = "select" /\ Supported(log[Len(log)].language))
    => call.file_configs =
          [i \in DOMAIN config.content |->
              [path  |-> PoolLocation(log[Len(log)].language,
                                      config.content[i].relative_path),
               count |-> config.content[i].count]]

\* C13 on the content entries whose relative path starts with a slash
C13_LeadingSlashLocations ==
    (pc = "select" /\ Supported(log[Len(log)].language))
    => /\ Len(call.file_configs) = Len(config.content)
       /\ \A i \in DOMAIN config.content :
             /\ call.file_configs[i].count = config.content[i].count
             /\ Head(config.content[i].relative_path) = "/"
                   => call.file_configs[i].path =
                         PoolLocation(log[Len(log)].language,
                                      config.content[i].relative_path)

(* C14: a call with a language code outside {en, rs} (after lowering) fails *)
(* in the resolver with the invalid-language error: no pool is loaded, no   *)
(* question converted, no artifact written.                                 *)
C14_InvalidLanguageRejected ==
    \A i \in DOMAIN log :
        ~Supported(log[i].language)
        => /\ log[i].outcome = "raised"
           /\ log[i].error = Raise("ValueError", "unsupported_language")
           /\ log[i].stages = <<"resolve">>
           /\ log[i].written = <<>>
           /\ disk = <<>>
           /\ pc \notin {"select", "convert", "synthesize", "write", "returned"}

\* a call with the language code "both" has been rejected
C14_Witness ==
    /\ log # <<>> /\ log[Len(log)].language = "both"
    /\ pc = "raised" /\ exc = Raise("ValueError", "unsupported_language")

\* a call with the code "EN" has passed the resolver
C14_UpperCaseAccepted ==
    pc = "select" /\ log[Len(log)].language = "en" /\ self.language = "en"
        /\ call.file_configs # <<>>

(* C8: two artifacts generated for the same language from the same config   *)
(* and pools, on any generator and after any earlier calls, agree in title, *)
(* metadata and selected questions (they may differ in choice order only).  *)
C8_RegenerationIdentical ==
    \A i, j \in DOMAIN log :
        (log[i].outcome = "returned" /\ log[j].outcome = "returned"
            /\ log[i].language = log[j].language)
        => log[i].written = log[j].written

----------------------------------------------------------------------------
(* test_generator_batch.py: main and generate_test_variants                 *)

\* dict.get(key, default), and `override if override is not None else ...`
get_or(optional, default) == IF optional = None THEN default ELSE optional[1]

\* the classes an `except cls` clause catches
Subclasses(cls) ==
    CASE cls = "RuntimeError" -> {"RuntimeError", "NotImplementedError", "RecursionError"}
      [] cls = "ValueError"   -> {"ValueError", "JSONDecodeError", "UnicodeError"}
      [] cls = "OSError"      -> {"OSError", "FileNotFoundError", "PermissionError"}
      [] OTHER                -> {cls}

isinstance(e, cls) == e.exc \in Subclasses(cls)

current_date == "2026-01-01"

\* the file name without the language tag
variant_path_untagged(output, test_name, lang, variant_num) ==
    <<output, "/", test_name, " | ", current_date, " | ",
      "Variant ", ToString(variant_num), ".gs">>

\* os.path.join(output, f"{test_name} | {current_date} | [{lang}] | Variant {variant_num}.gs")
variant_path(output, test_name, lang, variant_num) ==
    <<output, "/", test_name, " | ", current_date, " | ", "[", lang, "]", " | ",
      "Variant ", ToString(variant_num), ".gs">>

languages_to_generate(language, config_language) ==
    IF language # None /\ language[1] # "" THEN <<lower(language[1])>>
    ELSE IF config_language = "both" THEN <<"en", "rs">>
    ELSE <<lower(config_language)>>

NoBatch ==
    [languages_to_generate |-> <<>>, variants |-> 0, output |-> "", lang_i |-> 0,
     variant_num |-> 0, generated_files |-> <<>>, exit_status |-> None]

(* main, from the validation of the variant count to the call of            *)
(* generate_test_variants, and that function up to its language loop.       *)
Main ==
    /\ pc = "main"
    /\ LET variants == get_or(args.variants, get_or(config.variants, 10)) IN
       IF variants <= 0
       THEN /\ batch' = [NoBatch EXCEPT !.exit_status = Some(1)]
            /\ pc' = "exit"
       ELSE /\ batch' =
                [NoBatch EXCEPT
                    !.languages_to_generate =
                        languages_to_generate(args.language,
                                              lower(get_or(config.language, "both"))),
                    !.variants = variants,
                    !.output = get_or(args.output_dir, get_or(config.output_dir, "/tmp"))]
            /\ pc' = "language"
    /\ UNCHANGED <<fs, readonly, config, args, self, call, exc, disk, log, arg, res>>

\* for lang in languages_to_generate: generator = QuestionGenerator(...)
NextLanguage ==
    /\ pc = "language"
    /\ IF batch.lang_i = Len(batch.languages_to_generate)
       THEN /\ pc' = "gtv_returned"
            /\ UNCHANGED <<batch, self>>
       ELSE /\ batch' = [batch EXCEPT !.lang_i = @ + 1, !.variant_num = 0]
            /\ self' = QuestionGenerator(config.name,
                                         batch.languages_to_generate[batch.lang_i + 1],
                                         config.results_sheet)
            /\ pc' = "variant"
    /\ UNCHANGED <<fs, readonly, config, args, call, exc, disk, log, arg, res>>

\* for variant_num in range(1, variants + 1): generator.generate_test_for_language(...)
NextVariant ==
    /\ pc = "variant"
    /\ IF batch.variant_num >= batch.variants
       THEN /\ pc' = "language"
            /\ UNCHANGED <<batch, self, call, exc, log>>
       ELSE LET lang == batch.languages_to_generate[batch.lang_i]
                variant_num == batch.variant_num + 1
            IN  /\ batch' = [batch EXCEPT !.variant_num = variant_num]
                /\ EnterCall(config.content, lang,
                             Some(variant_path(batch.output, config.name, lang,
                                               variant_num)))
    /\ UNCHANGED <<fs, readonly, config, args, disk, arg, res>>

\* the append turned into an insert at the front
VariantGeneratedFirst ==
    /\ pc = "returned"
    /\ batch' = [batch EXCEPT !.generated_files =
                    <<log[Len(log)].output_path>> \o @]
    /\ pc' = "variant"
    /\ UNCHANGED <<fs, readonly, config, args, self, call, exc, disk, log, arg, res>>

\* generated_files.append(output_path)
VariantGenerated ==
    /\ pc = "returned"
    /\ batch' = [batch EXCEPT !.generated_files =
                    Append(@, log[Len(log)].output_path)]
    /\ pc' = "variant"
    /\ UNCHANGED <<fs, readonly, config, args, self, call, exc, disk, log, arg, res>>

(* except RuntimeError as e: continue.  Any other exception leaves          *)
(* generate_test_variants.                                                  *)
VariantRaised ==
    /\ pc = "raised"
    /\ IF isinstance(exc, "RuntimeError")
       THEN /\ pc' = "variant"
            /\ exc' = NoExc
       ELSE /\ pc' = "gtv_raised"
            /\ exc' = exc
    /\ UNCHANGED <<fs, readonly, config, args, self, batch, call, disk, log, arg, res>>

(* main after generate_test_variants: 0 when files were generated, 1 when   *)
(* none were or when the exception is caught; an exception main does not    *)
(* catch ends the interpreter with status 1.                                *)
MainExit ==
    /\ pc \in {"gtv_returned", "gtv_raised"}
    /\ batch' = [batch EXCEPT !.exit_status =
                    IF pc = "gtv_returned" /\ batch.generated_files # <<>>
                    THEN Some(0) ELSE Some(1)]
    /\ pc' = "exit"
    /\ UNCHANGED <<fs, readonly, config, args, self, call, exc, disk, log, arg, res>>

Next ==
    \/ Main \/ NextLanguage \/ NextVariant \/ VariantGenerated \/ VariantRaised
    \/ MainExit \/ Pipeline

BatchContents ==
    {<<[relative_path |-> <<"/", "m1.json">>, count |-> 1]>>,
     <<[relative_path |-> <<"/", "m1.json">>, count |-> 1],
       [relative_path |-> <<"/", "m2.json">>, count |-> 0]>>}

OutputPaths(cfg) ==
    {variant_path(cfg.output_dir[1], cfg.name, l, n) :
        l \in Languages, n \in 1..MaxVariants}

\* the command line: --language, --variants, --output-dir, each optional
Args ==
    [language : {None} \cup {Some(l) : l \in Languages},
     variants : {None} \cup {Some(n) : n \in 0..1},
     output_dir : {None}]

Init ==
    /\ config \in [name : {"T"}, results_sheet : {"sheet"}, content : BatchContents,
                   language : {None} \cup {Some(l) : l \in {"en", "rs", "both"}},
                   variants : {Some(MaxVariants)},
                   output_dir : {Some("out")}]
    /\ args \in Args
    /\ fs \in FileSystems(PoolPathsOf(config.content, Languages))
    /\ readonly \in {R \in SUBSET OutputPaths(config) : Cardinality(R) <= MaxReadOnly}
    /\ pc = "main"
    /\ self = Unused /\ batch = NoBatch /\ call = NoCall /\ exc = NoExc
    /\ disk = <<>> /\ log = <<>> /\ arg = Unused /\ res = Unused

Spec == Init /\ [][Next]_vars

----------------------------------------------------------------------------
(* Selection and concatenation, checked on SpecGen                          *)

\* the pool of content entry i in a language, as the content resolver names it
PoolOf(language, i) == PoolLocation(language, config.content[i].relative_path)

IsPool(path) == path \in DOMAIN fs /\ fs[path].wellformed /\ fs[path].json.t = "array"

ValidIn(path) == ValidOf(fs[path].json.a)

\* the call in progress, or the last one made
ThisCall == log[Len(log)]

Selecting == log # <<>> /\ "select" \in Range(ThisCall.stages)

Selected == pc \in {"convert", "synthesize", "write"}

ConvertDone == pc \in {"synthesize", "write"}

(* C4: a call for a language one of whose pools holds fewer valid questions *)
(* than its required count fails in the selection with the insufficient-    *)
(* questions error, runs no later stage and writes no artifact.             *)
C4_InsufficientFailsBeforeWrite ==
    (/\ Selecting
     /\ \E i \in DOMAIN config.content :
            /\ IsPool(PoolOf(ThisCall.language, i))
            /\ Len(ValidIn(PoolOf(ThisCall.language, i))) < config.content[i].count)
    => (/\ ThisCall.outcome = "raised"
        /\ ThisCall.error = Raise("ValueError", "insufficient")
        /\ ThisCall.stages = <<"resolve", "select">>
        /\ ThisCall.written = <<>>
        /\ ThisCall.output_path \notin DOMAIN disk)

(* C5: when every pool of the call holds at least its required (positive)   *)
(* count of valid questions, the selection does not fail and selects from   *)
(* each pool the first count valid questions in file order, whatever the    *)
(* shuffle draws afterwards.                                                *)
C5_FirstCountValid ==
    (/\ Selecting
     /\ \A i \in DOMAIN config.content :
            /\ IsPool(PoolOf(ThisCall.language, i))
            /\ config.content[i].count >= 1
            /\ config.content[i].count <= Len(ValidIn(PoolOf(ThisCall.language, i))))
    => (/\ ~(ThisCall.outcome = "raised"
                /\ ThisCall.stages[Len(ThisCall.stages)] = "select")
        /\ Selected =>
              call.selected =
                 [i \in DOMAIN config.content |->
                     SubSeq(ValidIn(PoolOf(ThisCall.language, i)), 1,
                            config.content[i].count)])

\* what the code's loader and slice select from pool i
pool_selection(language, i) ==
    py_slice_to(load_questions(fs, PoolOf(language, i)).ret, config.content[i].count)

(* C9: the question sequence is the concatenation of the per-pool           *)
(* selections in the order of the configuration; convert_format returns as  *)
(* many ChoiceSets, the i-th with the text of the i-th question; the        *)
(* artifact holds them in that order; with every count positive the length  *)
(* is the sum of the counts.                                                *)
C9_ConcatenationInConfigOrder ==
    /\ Selected =>
          /\ call.selected =
                [i \in DOMAIN config.content |-> pool_selection(ThisCall.language, i)]
          /\ call.all_questions = Flatten(call.selected)
          /\ (\A i \in DOMAIN config.content : config.content[i].count > 0)
                => Len(call.all_questions) =
                      SumSeq([i \in DOMAIN config.content |-> config.content[i].count])
    /\ ConvertDone =>
          /\ Len(call.js_questions) = Len(call.all_questions)
          /\ \A k \in DOMAIN call.js_questions :
                call.js_questions[k].question = call.all_questions[k].o.question
    /\ (log # <<>> /\ ThisCall.outcome = "returned") =>
          LET expected == Flatten([i \in DOMAIN config.content |->
                                      pool_selection(ThisCall.language, i)])
              questions == ThisCall.written[1].questions
          IN  /\ Len(questions) = Len(expected)
              /\ \A k \in DOMAIN questions : questions[k].question = expected[k].o.question

\* an artifact of two different questions, one from each of two pools
C9_Witness ==
    /\ log # <<>> /\ ThisCall.outcome = "returned"
    /\ Len(config.content) = 2
    /\ \A i \in DOMAIN config.content : config.content[i].count = 1
    /\ Len(ThisCall.written[1].questions) = 2
    /\ ThisCall.written[1].questions[1].question # ThisCall.written[1].questions[2].question

----------------------------------------------------------------------------
(* The batch, checked on Spec                                               *)

\* generate_test_variants has been left, by return or by an exception
Left == pc \in {"gtv_returned", "gtv_raised"}

Attempted(lang, n) ==
    \E i \in DOMAIN log :
        log[i].output_path = variant_path(batch.output, config.name, lang, n)

RECURSIVE WrittenPaths(_)
WrittenPaths(entries) ==
    IF entries = <<>> THEN <<>>
    ELSE (IF Head(entries).outcome = "returned" THEN <<Head(entries).output_path>>
          ELSE <<>>) \o WrittenPaths(Tail(entries))

(* C2: when a variant has failed, generate_test_variants still attempts     *)
(* every variant of that language and returns the list of files written.    *)
C2_FailedVariantDoesNotAbort ==
    (Left /\ \E i \in DOMAIN log : log[i].outcome = "raised")
    => (/\ pc = "gtv_returned"
        /\ batch.generated_files = WrittenPaths(log)
        /\ \A i \in DOMAIN log :
              log[i].outcome = "raised"
                 => \A n \in 1..batch.variants : Attempted(log[i].language, n))

InsufficientFor(lang) ==
    \E i \in DOMAIN config.content :
        /\ IsPool(PoolOf(lang, i))
        /\ Len(ValidIn(PoolOf(lang, i))) < config.content[i].count

SufficientFor(lang) ==
    \A i \in DOMAIN config.content :
        /\ IsPool(PoolOf(lang, i))
        /\ Len(ValidIn(PoolOf(lang, i))) >= config.content[i].count

Writable(lang) ==
    \A n \in 1..batch.variants :
        variant_path(batch.output, config.name, lang, n) \notin readonly

(* C3: in a batch over both languages with a pool insufficient for one      *)
(* language and every pool sufficient for the other, the batch returns and  *)
(* all variants of the other language are written and in the returned list. *)
C3_OtherLanguageGenerated ==
    \A bad, other \in Languages :
        (/\ Left
         /\ batch.languages_to_generate = <<"en", "rs">>
         /\ InsufficientFor(bad) /\ SufficientFor(other) /\ Writable(other))
        => (/\ pc = "gtv_returned"
            /\ \A n \in 1..batch.variants :
                  LET path == variant_path(batch.output, config.name, other, n) IN
                  path \in DOMAIN disk /\ path \in Range(batch.generated_files))

\* C3 with the insufficient language the second one processed
C3_SecondLanguageInsufficient ==
    (/\ Left
     /\ batch.languages_to_generate = <<"en", "rs">>
     /\ InsufficientFor("rs") /\ SufficientFor("en") /\ Writable("en"))
    => pc = "gtv_returned"

----------------------------------------------------------------------------
(* The units of a batch                                                     *)

\* the languages the run is asked for
RequestedLanguages ==
    IF args.language # None THEN <<args.language[1]>>
    ELSE IF config.language = None \/ config.language[1] = "both" THEN <<"en", "rs">>
    ELSE <<config.language[1]>>

\* the variant count the run is asked for
RequestedVariants ==
    IF args.variants # None THEN args.variants[1] ELSE config.variants[1]

UnitPath(lang, n) == variant_path(batch.output, config.name, lang, n)

RequestedUnits ==
    {<<l, UnitPath(l, n)>> : l \in Range(RequestedLanguages), n \in 1..RequestedVariants}

AttemptedUnits == {<<log[i].language, log[i].output_path>> : i \in DOMAIN log}

(* C15: when generate_test_variants is left, the units it has attempted are *)
(* exactly the variants 1..N of every requested language.                   *)
C15_RequestedUnitsAttempted ==
    Left => /\ batch.languages_to_generate = RequestedLanguages
            /\ batch.variants = RequestedVariants
            /\ AttemptedUnits = RequestedUnits

\* C15 without the completeness: the loop bounds, and no unit beyond them
C15_NoOtherUnits ==
    pc \notin {"main", "exit"} =>
        /\ batch.languages_to_generate = RequestedLanguages
        /\ batch.variants = RequestedVariants
        /\ AttemptedUnits \subseteq RequestedUnits

\* C15 on the runs in which generate_test_variants returns
C15_ReturnedRunsComplete ==
    pc = "gtv_returned" => AttemptedUnits = RequestedUnits

\* a unit of the batch is in one of its stages, or has just ended
InUnit == pc \in {"select", "convert", "synthesize", "write", "returned", "raised"}

\* the language of the unit in progress
ThisLanguage == batch.languages_to_generate[batch.lang_i]

(* C16: the unit (language, n) is written to the file                       *)
(* "{test-name} | {date} | [{language}] | Variant {n}.gs" in the output     *)
(* directory, and no two units of a run have the same path.                 *)
C16_UnitFileNames ==
    /\ InUnit =>
          /\ ThisCall.language = ThisLanguage
          /\ ThisCall.output_path =
                <<"out", "/", config.name, " | ", current_date, " | ", "[", ThisLanguage, "]",
                  " | ", "Variant ", ToString(batch.variant_num), ".gs">>
          /\ pc = "returned" => ThisCall.output_path \in DOMAIN disk
    /\ \A i, j \in DOMAIN log : log[i].output_path = log[j].output_path => i = j
    /\ \A i \in DOMAIN log :
          log[i].outcome = "returned" <=> log[i].output_path \in DOMAIN disk

\* a run over both languages has written all its units, to four files
C16_Witness ==
    /\ pc = "gtv_returned"
    /\ Len(batch.languages_to_generate) = 2 /\ batch.variants = 2
    /\ Cardinality(DOMAIN disk) = 4

(* C17: main ends with status 1 exactly when the run wrote no file, and     *)
(* with status 0 and the list of the files written when it wrote at least   *)
(* one, some variants having failed or not.                                 *)
C17_ExitStatus ==
    pc = "exit" =>
        /\ batch.exit_status = Some(1) <=> DOMAIN disk = {}
        /\ DOMAIN disk # {} =>
              /\ batch.exit_status = Some(0)
              /\ Range(batch.generated_files) = DOMAIN disk

\* C17 on the runs in which no variant failed
C17_ExitStatusWithoutFailure ==
    (pc = "exit" /\ \A i \in DOMAIN log : log[i].outcome = "returned") =>
        /\ batch.exit_status = Some(1) <=> DOMAIN disk = {}
        /\ DOMAIN disk # {} =>
              /\ batch.exit_status = Some(0)
              /\ Range(batch.generated_files) = DOMAIN disk

----------------------------------------------------------------------------
(* SpecMeta: batches whose configuration sets, or leaves out, the optional  *)
(* metadata of the test.                                                    *)

InitMeta ==
    /\ config \in [name : {"T"}, results_sheet : {"sheet", "sheet2"},
                   content : BatchContents,
                   language : {Some("en"), Some("both")},
                   variants : {Some(1)},
                   output_dir : {Some("out")},
                   description : {None, Some("D")},
                   points_per_question : {None, Some(1), Some(2)},
                   confirmation_message : {None, Some("C")}]
    /\ args = [language |-> None, variants |-> None, output_dir |-> None]
    /\ fs \in FileSystems(PoolPathsOf(config.content, Languages))
    /\ readonly = {}
    /\ pc = "main"
    /\ self = Unused /\ batch = NoBatch /\ call = NoCall /\ exc = NoExc
    /\ disk = <<>> /\ log = <<>> /\ arg = Unused /\ res = Unused

SpecMeta == InitMeta /\ [][Next]_vars

(* C18: every artifact of the batch carries the configuration's results     *)
(* destination and its description, points per question and confirmation    *)
(* message where the configuration sets them, the defaults where not.       *)
C18_ConfiguredMetadata ==
    \A path \in DOMAIN disk :
        /\ disk[path].results_sheet = config.results_sheet
        /\ disk[path].description = get_or(config.description, default_description)
        /\ disk[path].points_per_question =
              get_or(config.points_per_question, default_points_per_question)
        /\ disk[path].confirmation_message =
              get_or(config.confirmation_message, default_confirmation_message)

\* C18 on the results destination, and on the fields the configuration leaves out
C18_DestinationAndDefaults ==
    \A path \in DOMAIN disk :
        /\ disk[path].results_sheet = config.results_sheet
        /\ config.description = None => disk[path].description = default_description
        /\ config.points_per_question = None
              => disk[path].points_per_question = default_points_per_question
        /\ config.confirmation_message = None
              => disk[path].confirmation_message = default_confirmation_message

----------------------------------------------------------------------------
(* The life of a unit, and the returned file list                           *)

Stages == <<"resolve", "select", "convert", "synthesize", "write">>

IsPrefix(s, t) == Len(s) <= Len(t) /\ s = SubSeq(t, 1, Len(s))

(* C19: a unit is attempted at most once; its stages run in the order       *)
(* select, convert, synthesize, write and it is written only after all of   *)
(* them; when the batch ends every requested unit is written or failed.     *)
C19_UnitLifeCycle ==
    /\ \A i, j \in DOMAIN log :
          (log[i].language = log[j].language /\ log[i].output_path = log[j].output_path)
             => i = j
    /\ \A i \in DOMAIN log :
          /\ IsPrefix(log[i].stages, Stages)
          /\ log[i].outcome = "returned" => log[i].stages = Stages
          /\ log[i].output_path \in DOMAIN disk => log[i].stages = Stages
    /\ Left =>
          /\ AttemptedUnits = RequestedUnits
          /\ \A i \in DOMAIN log : log[i].outcome \in {"returned", "raised"}

\* C19 without the completeness at the end of the batch
C19_StagesInOrder ==
    /\ \A i, j \in DOMAIN log :
          (log[i].language = log[j].language /\ log[i].output_path = log[j].output_path)
             => i = j
    /\ \A i \in DOMAIN log :
          /\ IsPrefix(log[i].stages, Stages)
          /\ log[i].outcome = "returned" => log[i].stages = Stages
          /\ log[i].output_path \in DOMAIN disk => log[i].stages = Stages
    /\ Left => \A i \in DOMAIN log : log[i].outcome \in {"returned", "raised"}

\* every unit of the languages in generation order, ascending in the variant
RECURSIVE UnitsInOrder(_)
UnitsInOrder(languages) ==
    IF languages = <<>> THEN <<>>
    ELSE [n \in 1..batch.variants |-> UnitPath(Head(languages), n)]
            \o UnitsInOrder(Tail(languages))

IsWritten(path) == path \in DOMAIN disk

(* C20: the list generate_test_variants returns holds exactly the paths of  *)
(* the written units, each once, by language in generation order and by     *)
(* ascending variant; it is no longer than languages x N.                   *)
C20_ReturnedFileList ==
    pc \in {"language", "variant", "gtv_returned"} =>
        /\ batch.generated_files =
              SelectSeq(UnitsInOrder(batch.languages_to_generate), IsWritten)
        /\ \A i, j \in DOMAIN batch.generated_files :
              batch.generated_files[i] = batch.generated_files[j] => i = j
        /\ Len(batch.generated_files)
              <= Len(batch.languages_to_generate) * batch.variants

\* a list of four files has been returned
C20_Witness ==
    pc = "gtv_returned" /\ Len(batch.generated_files) = 4

----------------------------------------------------------------------------
(* The generator's title across calls, checked on SpecApi                   *)

(* C21: between calls on one generator, each returned or raised, the title  *)
(* is the test name the generator was constructed with, and every artifact  *)
(* written carries the name with exactly one language tag.                  *)
C21_TitleRestored ==
    /\ pc = "idle" => self.title = <<config.name>>
    /\ \A i \in DOMAIN log :
          log[i].outcome = "returned"
             => log[i].written[1].title = <<config.name, log[i].language>>

\* C21 while every call so far has returned
C21_TitleRestoredAfterReturn ==
    (\A i \in DOMAIN log : log[i].outcome # "raised") =>
        /\ pc = "idle" => self.title = <<config.name>>
        /\ \A i \in DOMAIN log :
              log[i].outcome = "returned"
                 => log[i].written[1].title = <<config.name, log[i].language>>

----------------------------------------------------------------------------
(* The input of convert_format, checked on SpecConvert                      *)

(* C22: after convert_format the caller's questions are what they were:     *)
(* same text, same four answers in the same order, same correct answer.     *)
C22_InputUnchanged ==
    pc = "convert_format" =>
        /\ arg = call.all_questions
        /\ \A i \in DOMAIN arg :
              /\ arg[i].o.question = call.all_questions[i].o.question
              /\ arg[i].o.answers.a = call.all_questions[i].o.answers.a
              /\ Len(arg[i].o.answers.a) = 4
              /\ arg[i].o.correct = call.all_questions[i].o.correct

\* two questions converted, the first with its answers really reordered
C22_Witness ==
    /\ pc = "convert_format"
    /\ Len(arg) = 2
    /\ SubSeq(res[1].choices, 1, 4) # arg[1].o.answers.a

----------------------------------------------------------------------------
(* Generator and analyzer: _format_questions_for_js and                     *)
(* parse_questions_from_gs_file.  Texts are sequences of characters; the    *)
(* alphabet has no bracket, colon or semicolon, so the analyzer's two       *)
(* regular expressions find the array and its keys where the generator put  *)
(* them, and the array is modelled entry by entry.                          *)

\* the choices as character sequences; the sentinel, appended last, is one character
choice_texts(choices) ==
    [i \in DOMAIN choices |-> IF i = Len(choices) THEN <<choices[i]>> ELSE choices[i]]

\* one entry of the questionsPool array, as written into the script
format_question_for_js(q) ==
    [question |-> embed_question(q.question),
     choices  |-> [i \in DOMAIN q.choices |-> embed_choice(choice_texts(q.choices)[i])],
     correct  |-> q.correct]

_format_questions_for_js(questions) ==
    [i \in DOMAIN questions |-> format_question_for_js(questions[i])]

(* json.loads of the inside of a string literal: \\ and \" and \n and \r    *)
(* are decoded, any other escape, a bare quote or a bare control character  *)
(* is a JSONDecodeError.                                                    *)
RECURSIVE json_unescape(_)
json_unescape(s) ==
    IF s = <<>> THEN [ok |-> TRUE, text |-> <<>>]
    ELSE IF Head(s) = "\\"
    THEN IF Len(s) < 2 \/ s[2] \notin {"\\", "\"", "n", "r"}
         THEN [ok |-> FALSE]
         ELSE LET rest == json_unescape(SubSeq(s, 3, Len(s)))
                  c == CASE s[2] = "n" -> "\n" [] s[2] = "r" -> "\r" [] OTHER -> s[2]
              IN  IF rest.ok THEN [ok |-> TRUE, text |-> <<c>> \o rest.text] ELSE rest
    ELSE IF Head(s) \in {"\"", "\n", "\r"} THEN [ok |-> FALSE]
    ELSE LET rest == json_unescape(Tail(s)) IN
         IF rest.ok THEN [ok |-> TRUE, text |-> <<Head(s)>> \o rest.text] ELSE rest

json_loads_str(literal) ==
    IF Len(literal) < 2 \/ Head(literal) # "\"" \/ literal[Len(literal)] # "\""
    THEN [ok |-> FALSE]
    ELSE json_unescape(SubSeq(literal, 2, Len(literal) - 1))

\* questions_raw = json.loads(json_str), one entry
json_loads_entry(entry) ==
    LET q == json_loads_str(entry.question)
        cs == [i \in DOMAIN entry.choices |-> json_loads_str(entry.choices[i])]
    IN  IF q.ok /\ \A i \in DOMAIN cs : cs[i].ok
        THEN [ok |-> TRUE,
              q |-> [question |-> q.text,
                     choices |-> [i \in DOMAIN cs |-> cs[i].text],
                     correct |-> entry.correct]]
        ELSE [ok |-> FALSE]

IsRealChoice(c) == c \notin {<<"I don't know">>, <<"Ne znam">>}

\* the conversion to the standard format, one question
parse_question(q) ==
    LET real_choices == SelectSeq(q.choices, IsRealChoice) IN
    [question |-> q.question,
     answers  |-> real_choices,
     correct  |-> IF q.correct < Len(q.choices) THEN q.choices[q.correct + 1]
                  ELSE real_choices[1]]

parse_questions_from_gs_file(questionsPool) ==
    LET raw == [i \in DOMAIN questionsPool |-> json_loads_entry(questionsPool[i])] IN
    IF \E i \in DOMAIN raw : ~raw[i].ok THEN Raise("ValueError", "could_not_parse")
    ELSE Return([i \in DOMAIN raw |-> parse_question(raw[i].q)])

----------------------------------------------------------------------------
(* SpecRoundTrip: a list of valid questions is converted, written into a    *)
(* script and read back by the analyzer.                                    *)

TextChars == {"a", "\"", "\\"}

Texts == SeqsUpTo(TextChars, MaxTextLen)

\* a free question text with plain answers, or plain text with one free answer
RoundTripQuestions ==
    {Question(t, <<<<"b">>, <<"c">>, <<"d">>, <<"e">>>>, c) :
        t \in Texts, c \in {<<"b">>, <<"e">>}}
    \cup {Question(<<"q">>, <<t, <<"c">>, <<"d">>, <<"e">>>>,
                    IF first THEN t ELSE <<"e">>) :
             t \in Texts, first \in BOOLEAN}

InitRoundTrip ==
    /\ arg \in {<<q>> : q \in RoundTripQuestions}
          \cup {<<Question(<<"q", "\"">>, <<<<"b">>, <<"c">>, <<"d">>, <<"e">>>>, <<"c">>),
                  Question(<<"\\">>, <<<<"f">>, <<"g">>, <<"h">>, <<"i">>>>, <<"i">>)>>}
    /\ self \in {QuestionGenerator("T", l, "sheet") : l \in Languages}
    /\ res = Unused
    /\ pc = "call"
    /\ fs = <<>> /\ config = Unused /\ args = Unused /\ batch = Unused
    /\ call = NoCall /\ exc = NoExc /\ disk = <<>> /\ log = Unused
    /\ readonly = {}

\* convert_format and generate_script: the questionsPool array of the script
GenerateQuestionsPool ==
    /\ pc = "call"
    /\ \E draws \in Draws(arg) :
          /\ res' = _format_questions_for_js(convert_format(self.language, arg, draws))
          /\ arg' = questions_after(self.language, arg, draws)
    /\ pc' = "generated"
    /\ UNCHANGED <<fs, readonly, config, args, self, batch, call, exc, disk, log>>

ParseQuestions ==
    /\ pc = "generated"
    /\ res' = parse_questions_from_gs_file(res)
    /\ pc' = "parsed"
    /\ UNCHANGED <<fs, readonly, config, args, self, batch, call, exc, disk, log, arg>>

NextRoundTrip == GenerateQuestionsPool \/ ParseQuestions

SpecRoundTrip == InitRoundTrip /\ [][NextRoundTrip]_vars

(* C23: the analyzer reads back, for each question in order, the original   *)
(* text, the original four answers in some order and the original correct   *)
(* answer.                                                                  *)
C23_RoundTrip ==
    pc = "parsed" =>
        /\ res.exc = "None"
        /\ Len(res.ret) = Len(arg)
        /\ \A i \in DOMAIN arg :
              /\ res.ret[i].question = arg[i].o.question
              /\ BagOf(res.ret[i].answers) = BagOf(arg[i].o.answers.a)
              /\ res.ret[i].correct = arg[i].o.correct

\* C23 for the question text, and for answers without quote or backslash
C23_QuestionTextRoundTrip ==
    pc = "parsed" =>
        /\ res.exc = "None"
        /\ Len(res.ret) = Len(arg)
        /\ \A i \in DOMAIN arg :
              /\ res.ret[i].question = arg[i].o.question
              /\ (\A k \in 1..4 : Range(arg[i].o.answers.a[k]) \cap {"\"", "\\"} = {})
                    => /\ BagOf(res.ret[i].answers) = BagOf(arg[i].o.answers.a)
                       /\ res.ret[i].correct = arg[i].o.correct

----------------------------------------------------------------------------
(* list_generated_files: Path(output_dir).glob(pattern)                     *)

Lit(s) == [k |-> "lit", s |-> s]

Star == [k |-> "star"]

\* [seq] in a glob pattern: any one character of seq
CharClass(chars) == [k |-> "class", chars |-> chars]

CharsOf(language) ==
    CASE language = "en" -> {"e", "n"}
      [] language = "rs" -> {"r", "s"}
      [] OTHER -> {language}

\* the pattern list_generated_files builds
list_pattern(language, test_name) ==
    LET first == IF test_name # None /\ test_name[1] # "" THEN Lit(test_name[1]) ELSE Star
    IN  IF language # None /\ language[1] # ""
        THEN <<first, Lit(" | "), Star, Lit(" | "), CharClass(CharsOf(lower(language[1]))),
               Lit(" | "), Star, Lit(".gs")>>
        ELSE <<first, Lit(" | "), Star, Lit(" | "), Star, Lit(".gs")>>

\* fnmatch of a file name against a pattern
RECURSIVE glob_match(_, _)
glob_match(pattern, name) ==
    IF pattern = <<>> THEN name = <<>>
    ELSE CASE Head(pattern).k = "star" ->
                \E i \in 0..Len(name) :
                    glob_match(Tail(pattern), SubSeq(name, i + 1, Len(name)))
           [] Head(pattern).k = "lit" ->
                /\ name # <<>>
                /\ Head(name) = Head(pattern).s
                /\ glob_match(Tail(pattern), Tail(name))
           [] Head(pattern).k = "class" ->
                /\ name # <<>>
                /\ Head(name) \in Head(pattern).chars
                /\ glob_match(Tail(pattern), Tail(name))

\* the name of a file of the output directory
FileName(path) == SubSeq(path, 3, Len(path))

list_generated_files(files, output_dir, language, test_name) ==
    {path \in files :
        /\ path[1] = output_dir
        /\ glob_match(list_pattern(language, test_name), FileName(path))}

----------------------------------------------------------------------------
(* SpecList: list_generated_files on an output directory that holds files  *)
(* of earlier batches and other files.                                      *)

TestNames == {"T", "U"}

\* the files generate_test_variants writes for a language
GeneratedFor(language, names) ==
    {variant_path("out", name, language, n) : name \in names, n \in 1..MaxVariants}

OtherFiles ==
    {<<"out", "/", "T", " | ", "x", " | ", "e", " | ", "y", ".gs">>,
     <<"out", "/", "notes", ".txt">>}

InitList ==
    /\ disk \in UNION {[D -> {"script"}] :
                          D \in SUBSET (GeneratedFor("en", TestNames)
                                           \cup GeneratedFor("rs", TestNames)
                                           \cup OtherFiles)}
    /\ arg \in [language : {None} \cup {Some(l) : l \in Languages},
                test_name : {None} \cup {Some(name) : name \in TestNames}]
    /\ res = Unused
    /\ pc = "call"
    /\ fs = <<>> /\ config = Unused /\ args = Unused /\ self = Unused
    /\ batch = Unused /\ call = NoCall /\ exc = NoExc /\ log = Unused
    /\ readonly = {}

ListGeneratedFiles ==
    /\ pc = "call"
    /\ res' = list_generated_files(DOMAIN disk, "out", arg.language, arg.test_name)
    /\ pc' = "listed"
    /\ UNCHANGED <<fs, readonly, config, args, self, batch, call, exc, disk, log, arg>>

NextList == ListGeneratedFiles

SpecList == InitList /\ [][NextList]_vars

(* C24: with a language filter the listing is exactly the files of the      *)
(* directory that were generated for that language (and for the test name,  *)
(* when one is given).                                                      *)
C24_ListingByLanguage ==
    (pc = "listed" /\ arg.language # None) =>
        res = DOMAIN disk \cap
                 GeneratedFor(arg.language[1],
                              IF arg.test_name = None THEN TestNames
                              ELSE {arg.test_name[1]})

\* without a language filter every generated file of the test name is listed
C24_UnfilteredListing ==
    (pc = "listed" /\ arg.language = None) =>
        \A l \in Languages :
            DOMAIN disk \cap GeneratedFor(l, IF arg.test_name = None THEN TestNames
                                             ELSE {arg.test_name[1]})
                \subseteq res

\* the part of C24 that asks for the generated files to be in the listing
C24_GeneratedFilesListed ==
    (pc = "listed" /\ arg.language # None) =>
        DOMAIN disk \cap GeneratedFor(arg.language[1],
                                      IF arg.test_name = None THEN TestNames
                                      ELSE {arg.test_name[1]})
            \subseteq res

----------------------------------------------------------------------------
(* SpecCommand: the generate command, given to test_generator_batch.py or   *)
(* to main.py, which runs that script with the overrides it forwards.       *)

\* Python's truth value of an optional str, and of an optional int
truthy_str(optional) == optional # None /\ optional[1] # ""

truthy_int(optional) == optional # None /\ optional[1] # 0

\* AITestOrchestrator.generate_tests: the command line of the batch script
forwarded_args(command) ==
    [language   |-> IF truthy_str(command.language) THEN command.language ELSE None,
     variants   |-> IF truthy_int(command.variants) THEN command.variants ELSE None,
     output_dir |-> IF truthy_str(command.output_dir) THEN command.output_dir ELSE None]

Commands ==
    [entry : {"test_generator_batch.py", "main.py"},
     language : {None}, variants : {None} \cup {Some(n) : n \in -1..1},
     output_dir : {None}]

InitCommand ==
    /\ arg \in Commands
    /\ config \in [name : {"T"}, results_sheet : {"sheet"},
                   content : {<<[relative_path |-> <<"/", "m1.json">>, count |-> 1]>>},
                   language : {Some("en")},
                   variants : {Some(n) : n \in -1..1},
                   output_dir : {Some("out")}]
    /\ fs \in FileSystems(PoolPathsOf(config.content, {"en"}))
    /\ readonly = {}
    /\ IF arg.entry = "main.py"
       THEN pc = "main.py" /\ args = Unused
       ELSE pc = "main" /\ args = [language |-> arg.language, variants |-> arg.variants,
                                   output_dir |-> arg.output_dir]
    /\ self = Unused /\ batch = NoBatch /\ call = NoCall /\ exc = NoExc
    /\ disk = <<>> /\ log = <<>> /\ res = Unused

\* main.py generate: the batch script is started with the forwarded overrides
GenerateTests ==
    /\ pc = "main.py"
    /\ args' = forwarded_args(arg)
    /\ pc' = "main"
    /\ UNCHANGED <<fs, readonly, config, self, batch, call, exc, disk, log, arg, res>>

\* run_script returns returncode == 0, and main.py exits with 0 if success else 1
RunScriptDone ==
    /\ pc = "exit"
    /\ arg.entry = "main.py"
    /\ res' = IF batch.exit_status = Some(0) THEN 0 ELSE 1
    /\ pc' = "main.py exit"
    /\ UNCHANGED <<fs, readonly, config, args, self, batch, call, exc, disk, log, arg>>

NextCommand == GenerateTests \/ RunScriptDone \/ Next

SpecCommand == InitCommand /\ [][NextCommand]_vars

\* the number of variants the command asks for
CommandVariants ==
    IF arg.variants # None THEN arg.variants[1] ELSE config.variants[1]

(* C25: a command that asks for zero or fewer variants, by the config or by *)
(* --variants, directly or through main.py, ends with status 1 and writes   *)
(* no file.                                                                 *)
C25_NonPositiveVariantsRejected ==
    CommandVariants <= 0 =>
        /\ disk = <<>>
        /\ pc = "exit" => batch.exit_status = Some(1)
        /\ pc = "main.py exit" => res = 1

\* C25 for the batch script run directly
C25_RejectedWhenRunDirectly ==
    (CommandVariants <= 0 /\ arg.entry = "test_generator_batch.py") =>
        /\ disk = <<>>
        /\ pc = "exit" => batch.exit_status = Some(1)

\* C25 through main.py, for every override but 0
C25_RejectedUnlessOverrideZero ==
    (CommandVariants <= 0 /\ arg.variants # Some(0)) =>
        /\ disk = <<>>
        /\ pc = "exit" => batch.exit_status = Some(1)
        /\ pc = "main.py exit" => res = 1

----------------------------------------------------------------------------
(* The generated script: the passing score logged by createQuiz and the     *)
(* verdict of onFormSubmit.  The script computes in doubles; for the totals *)
(* considered here every product and quotient below rounds to the value of  *)
(* the exact expression, so the arithmetic is modelled on integers.         *)

\* Math.ceil(totalPoints * 0.8)
ceil_80_percent(totalPoints) == -((-(4 * totalPoints)) \div 5)

\* the passing score rounded down instead of up
passing_score_floor(totalPoints) == (4 * totalPoints) \div 5

\* const passingScore = Math.ceil(totalPoints * 0.8)
passing_score(totalPoints) == ceil_80_percent(totalPoints)

\* pct = totalPoints > 0 ? (earnedPoints / totalPoints) * 100 : 0; passed = pct >= 80
passed(earnedPoints, totalPoints) ==
    IF totalPoints > 0 THEN earnedPoints * 100 >= 80 * totalPoints
    ELSE 0 >= 80

----------------------------------------------------------------------------
(* SpecScore: a quiz of arg.questions items of arg.points_per_question      *)
(* points each is created, then a respondent submits with some of the items *)
(* answered correctly.                                                      *)

InitScore ==
    /\ arg \in [questions : 0..MaxItems, points_per_question : 0..MaxPoints]
    /\ res = Unused
    /\ pc = "deployed"
    /\ fs = <<>> /\ config = Unused /\ args = Unused /\ self = Unused
    /\ batch = Unused /\ call = NoCall /\ exc = NoExc /\ disk = <<>> /\ log = Unused
    /\ readonly = {}

\* createQuiz: one item per question, then the log of the passing score
CreateQuiz ==
    /\ pc = "deployed"
    /\ LET totalPoints == arg.questions * arg.points_per_question IN
       res' = [items |-> [i \in 1..arg.questions |-> arg.points_per_question],
               totalPoints |-> totalPoints,
               passingScore |-> passing_score(totalPoints)]
    /\ pc' = "created"
    /\ UNCHANGED <<fs, readonly, config, args, self, batch, call, exc, disk, log, arg>>

\* onFormSubmit: the items in `right` are answered with their correct choice
OnFormSubmit ==
    /\ pc = "created"
    /\ \E right \in SUBSET DOMAIN res.items :
          LET totalPoints == SumSeq(res.items)
              earnedPoints == SumSeq([i \in DOMAIN res.items |->
                                         IF i \in right THEN res.items[i] ELSE 0])
          IN  res' = [items |-> res.items, totalPoints |-> totalPoints,
                      passingScore |-> res.passingScore,
                      earnedPoints |-> earnedPoints,
                      passed |-> passed(earnedPoints, totalPoints)]
    /\ pc' = "submitted"
    /\ UNCHANGED <<fs, readonly, config, args, self, batch, call, exc, disk, log, arg>>

NextScore == CreateQuiz \/ OnFormSubmit

SpecScore == InitScore /\ [][NextScore]_vars

(* C26: a respondent passes exactly when 100 * earned >= 80 * total; the    *)
(* logged passing score is the least integer score that passes; with a      *)
(* total of 0 the respondent fails.                                         *)
C26_PassAtEightyPercent ==
    /\ pc = "submitted" =>
          /\ res.totalPoints = arg.questions * arg.points_per_question
          /\ res.totalPoints > 0
                => (res.passed <=> 100 * res.earnedPoints >= 80 * res.totalPoints)
          /\ res.totalPoints = 0 => ~res.passed
    /\ (pc \in {"created", "submitted"} /\ res.totalPoints > 0) =>
          /\ res.passingScore \in 0..res.totalPoints
          /\ passed(res.passingScore, res.totalPoints)
          /\ \A e \in 0..res.totalPoints :
                passed(e, res.totalPoints) <=> e >= res.passingScore

\* a respondent has earned 4 of 5 points, exactly the passing score, and passes
C26_Witness ==
    /\ pc = "submitted"
    /\ res.totalPoints = 5 /\ res.earnedPoints = 4 /\ res.passingScore = 4
    /\ res.passed

============================================================================
